---- MODULE Spec2Model ----
(***************************************************************************)
(* Job execution engine of the assignment-scraper repository:              *)
(*   - the ScrapingJob aggregate and its status transitions                *)
(*     (src/domain/entities/scraping.py),                                  *)
(*   - ExecuteScrapingJobUseCase.execute and BulkScrapingUseCase.execute   *)
(*     (src/application/use_cases/scraping_use_cases.py),                  *)
(*   - the job repository's find/update and its model-to-entity mapping    *)
(*     (src/infrastructure/repositories/scraping_repository_impl.py),      *)
(*   - HttpWebScraperService.scrape_url (tenacity retry) and               *)
(*     scrape_multiple_urls (semaphore + gather)                           *)
(*     (src/infrastructure/services/web_scraper_impl.py).                  *)
(*                                                                         *)
(* The variable entry names the entry point a behaviour exercises:         *)
(* "entity" (operations called directly on one ScrapingJob), "execute"     *)
(* (callers of ExecuteScrapingJobUseCase.execute on one stored job) or     *)
(* "bulk" (one BulkScrapingUseCase.execute call).  The variable req is the *)
(* bulk_scrape request handler of src/main.py when the call is made for a  *)
(* POST /api/v1/bulk-scrape request.                                       *)
(*                                                                         *)
(* The use cases are written against the WebScraperService interface, so   *)
(* what one extractor attempt does (return data, raise) is an input of     *)
(* each attempt step; the values read from settings (scraping_max_         *)
(* concurrent, scraping_delay) are inputs fixed in the initial state.  The *)
(* clock is an input too: every datetime.utcnow() reads a value that is    *)
(* not before the previous reading.                                        *)
(***************************************************************************)
EXTENDS Integers, Sequences, FiniteSets

VARIABLES entry, now, job, last, db, ex, bulk, units, sem, req

vars == <<entry, now, job, last, db, ex, bulk, units, sem, req>>

(***************************************************************************)
(* Bounds of the model.                                                    *)
(***************************************************************************)
\* most targets a job is created with / grows to
MaxTargets == 3
\* most targets of the stored job the execute callers run
MaxExecTargets == 2
\* most results appended by direct add_result calls in the entity behaviours
MaxResults == 2
\* last reading of the clock (datetime.utcnow() is monotone: readings are
\* drawn from now..MaxClock)
MaxClock == 1
\* largest scraping_max_concurrent tried
MaxConc == 2
\* largest attempt number the backoff policy is evaluated at
MaxWaitAttempt == 5

(***************************************************************************)
(* Values.                                                                 *)
(***************************************************************************)
\* Optional[datetime] = None
NoneTime == -1
\* Optional[str] = None
NoneMsg == "None"

PENDING == "pending"
IN_PROGRESS == "in_progress"
COMPLETED == "completed"
FAILED == "failed"
CANCELLED == "cancelled"

ScrapingStatus == {PENDING, IN_PROGRESS, COMPLETED, FAILED, CANCELLED}

\* str(e) of the exceptions an engine can pass to fail(), and caller messages
Msgs == {"boom", ""}

\* the URLs of the targets: target k of a job has URL k
TargetList(n) == [k \in 1..n |-> k]

\* target.data_type: the targets with an even URL are job listings, the
\* others are of the general type
DataTypeOf(url) == IF url % 2 = 0 THEN "job_listing" ELSE "general"

\* the keys of extracted_data when scrape_url falls back to the basic page
\* info (the targets here carry no selectors); the mapping has these two
\* keys whatever the page holds
BasicPageInfo == {"title", "content"}

\* the keys of the content _scrape_job_listing builds from a non-empty list
JobListingContent == {"jobs", "count"}

\* a content mapping is modelled by its set of keys
EmptyContent == {}

\* a constructor without __post_init__'s check
ScrapedDataUnchecked(url, content) ==
    [raised |-> FALSE,
     data |-> [source_url |-> url, kind |-> "data", content |-> content]]

\* ScrapedData(source_url=url, content=content): __post_init__ raises
\* ValueError("Content cannot be empty") when `not self.content`
ScrapedData(url, content) ==
    [raised |-> content = EmptyContent,
     data |-> [source_url |-> url, kind |-> "data", content |-> content]]

\* an exception object standing in a gather() result list
ExcResult(url, reason) == [source_url |-> url, kind |-> reason]

\* ScrapingJob(targets=...), every other field at its dataclass default
ScrapingJob(targets) ==
    [status |-> PENDING, targets |-> targets, results |-> <<>>,
     started_at |-> NoneTime, completed_at |-> NoneTime,
     error_message |-> NoneMsg]

\* readings datetime.utcnow() can return after the reading `t`
UtcNow(t) == t..MaxClock

(***************************************************************************)
(* ScrapingJob methods.  Each returns the job after the call and whether   *)
(* the call raised ValueError.                                             *)
(***************************************************************************)
Raise(j) == [raised |-> TRUE, job |-> j]
Return(j) == [raised |-> FALSE, job |-> j]

\* start() without its status check
StartUnguarded(j, t) ==
    Return([j EXCEPT !.status = IN_PROGRESS, !.started_at = t])

\* start() that stamps started_at and forgets the status
StartKeepsStatus(j, t) ==
    IF j.status # PENDING
    THEN Raise(j)
    ELSE Return([j EXCEPT !.started_at = t])

Start(j, t) ==
    IF j.status # PENDING
    THEN Raise(j)
    ELSE Return([j EXCEPT !.status = IN_PROGRESS, !.started_at = t])

\* complete() that forgets completed_at
CompleteNoStamp(j, t) ==
    IF j.status # IN_PROGRESS
    THEN Raise(j)
    ELSE Return([j EXCEPT !.status = COMPLETED])

Complete(j, t) ==
    IF j.status # IN_PROGRESS
    THEN Raise(j)
    ELSE Return([j EXCEPT !.status = COMPLETED, !.completed_at = t])

\* fail() that forgets completed_at
FailNoStamp(j, error_message, t) ==
    IF j.status \notin {PENDING, IN_PROGRESS}
    THEN Raise(j)
    ELSE Return([j EXCEPT !.status = FAILED,
                          !.error_message = error_message])

Fail(j, error_message, t) ==
    IF j.status \notin {PENDING, IN_PROGRESS}
    THEN Raise(j)
    ELSE Return([j EXCEPT !.status = FAILED,
                          !.error_message = error_message,
                          !.completed_at = t])

\* cancel() without its status check
CancelUnguarded(j, t) ==
    Return([j EXCEPT !.status = CANCELLED, !.completed_at = t])

Cancel(j, t) ==
    IF j.status = COMPLETED
    THEN Raise(j)
    ELSE Return([j EXCEPT !.status = CANCELLED, !.completed_at = t])

\* add_result() that puts the new element first
AddResultAtFront(j, scraped_data) ==
    Return([j EXCEPT !.results = <<scraped_data>> \o @])

AddResult(j, scraped_data) ==
    Return([j EXCEPT !.results = Append(@, scraped_data)])

AddTarget(j, target) ==
    Return([j EXCEPT !.targets = Append(@, target)])

\* `x and ...` on an Optional[datetime]: None is false, a datetime is true
Truthy(t) == t # NoneTime

\* a duration with the operands of the subtraction swapped
DurationReversed(j) ==
    IF Truthy(j.started_at) /\ Truthy(j.completed_at)
    THEN [defined |-> TRUE, seconds |-> j.started_at - j.completed_at]
    ELSE [defined |-> FALSE, seconds |-> 0]

\* duration: (completed_at - started_at).total_seconds(), or None
Duration(j) ==
    IF Truthy(j.started_at) /\ Truthy(j.completed_at)
    THEN [defined |-> TRUE, seconds |-> j.completed_at - j.started_at]
    ELSE [defined |-> FALSE, seconds |-> 0]

RECURSIVE GCD(_, _)
GCD(a, b) == IF b = 0 THEN a ELSE GCD(b, a % b)

\* n / d on integers (d > 0): the quotient as a fraction in lowest terms,
\* so that equal quotients are equal values
TrueDiv(n, d) == [num |-> n \div GCD(n, d), den |-> d \div GCD(n, d)]

\* the float 0.0
Zero == TrueDiv(0, 1)

\* a success_rate whose guard falls back to counting the results
SuccessRateUnguarded(j) ==
    IF Len(j.targets) = 0
    THEN TrueDiv(Len(j.results), 1)
    ELSE TrueDiv(Len(j.results), Len(j.targets))

\* success_rate: 0.0 without targets, else len(results) / len(targets)
SuccessRate(j) ==
    IF Len(j.targets) = 0
    THEN Zero
    ELSE TrueDiv(Len(j.results), Len(j.targets))

(***************************************************************************)
(* Entry point "entity": the methods called directly on one job.  last     *)
(* records the latest call: the method, its message argument, the job      *)
(* before the call and whether it raised.                                  *)
(***************************************************************************)
NoCall == [op |-> "none", msg |-> NoneMsg, raised |-> FALSE,
           pre |-> ScrapingJob(<<>>)]

Called(op, msg, r) ==
    [op |-> op, msg |-> msg, raised |-> r.raised, pre |-> job]

otherThanEntity == <<entry, db, ex, bulk, units, sem, req>>

DoStart ==
    /\ entry = "entity"
    /\ \E t \in UtcNow(now) :
         LET r == Start(job, t) IN
           /\ now' = t
           /\ job' = r.job
           /\ last' = Called("start", NoneMsg, r)
    /\ UNCHANGED otherThanEntity

DoComplete ==
    /\ entry = "entity"
    /\ \E t \in UtcNow(now) :
         LET r == Complete(job, t) IN
           /\ now' = t
           /\ job' = r.job
           /\ last' = Called("complete", NoneMsg, r)
    /\ UNCHANGED otherThanEntity

DoFail ==
    /\ entry = "entity"
    /\ \E t \in UtcNow(now), msg \in Msgs :
         LET r == Fail(job, msg, t) IN
           /\ now' = t
           /\ job' = r.job
           /\ last' = Called("fail", msg, r)
    /\ UNCHANGED otherThanEntity

DoCancel ==
    /\ entry = "entity"
    /\ \E t \in UtcNow(now) :
         LET r == Cancel(job, t) IN
           /\ now' = t
           /\ job' = r.job
           /\ last' = Called("cancel", NoneMsg, r)
    /\ UNCHANGED otherThanEntity

\* job.add_result(ScrapedData(source_url=url, content=content)): when the
\* constructor raises, add_result is not reached
DoAddResult ==
    /\ entry = "entity"
    /\ Len(job.results) < MaxResults
    /\ \E url \in 1..MaxTargets, content \in {EmptyContent, BasicPageInfo} :
         LET d == ScrapedData(url, content)
             r == AddResult(job, d.data)
         IN IF d.raised
            THEN /\ job' = job
                 /\ last' = Called("ScrapedData", NoneMsg, d)
            ELSE /\ job' = r.job
                 /\ last' = Called("add_result", NoneMsg, r)
    /\ UNCHANGED <<now, otherThanEntity>>

DoAddTarget ==
    /\ entry = "entity"
    /\ Len(job.targets) < MaxTargets
    /\ LET r == AddTarget(job, Len(job.targets) + 1) IN
         /\ job' = r.job
         /\ last' = Called("add_target", NoneMsg, r)
    /\ UNCHANGED <<now, otherThanEntity>>

JobNext ==
    \/ DoStart
    \/ DoComplete
    \/ DoFail
    \/ DoCancel
    \/ DoAddResult
    \/ DoAddTarget

(***************************************************************************)
(* The job repository.  db is the stored row of the one job the            *)
(* behaviours are about (ScrapingJobModel) with its scraped_data relation. *)
(***************************************************************************)
ScrapingJobModel(status, targets, started_at, completed_at, error_message) ==
    [exists |-> TRUE, status |-> status, targets |-> targets,
     started_at |-> started_at, completed_at |-> completed_at,
     error_message |-> error_message, scraped_data |-> <<>>]

NoRow == [ScrapingJobModel(PENDING, <<>>, NoneTime, NoneTime, NoneMsg)
            EXCEPT !.exists = FALSE]

\* _model_to_entity: targets and results are rebuilt from the row; results
\* are the rows of the scraped_data relation, not any in-memory list
ModelToEntity(model) ==
    [status |-> model.status, targets |-> model.targets,
     results |-> model.scraped_data,
     started_at |-> model.started_at, completed_at |-> model.completed_at,
     error_message |-> model.error_message]

\* find_by_id: a fresh entity per call, or None
FindById(model) ==
    IF model.exists
    THEN [found |-> TRUE, job |-> ModelToEntity(model)]
    ELSE [found |-> FALSE, job |-> ScrapingJob(<<>>)]

\* save: a new row from the entity; the scraped_data relation is not written
Save(j) ==
    ScrapingJobModel(j.status, j.targets, j.started_at, j.completed_at,
                     j.error_message)

\* update: copies status, targets, error_message and the two timestamps
\* into the row and returns the row mapped back to an entity; raises
\* ValueError when the row is missing
Update(model, j) ==
    IF model.exists
    THEN LET m == [model EXCEPT !.status = j.status,
                                !.targets = j.targets,
                                !.error_message = j.error_message,
                                !.started_at = j.started_at,
                                !.completed_at = j.completed_at]
         IN [raised |-> FALSE, model |-> m, job |-> ModelToEntity(m)]
    ELSE [raised |-> TRUE, model |-> model, job |-> j]

\* update refused by the database: session.execute or session.flush raises
\* and the stored row stays as it was
Rejected(model, j) == [raised |-> TRUE, model |-> model, job |-> j]

\* what one call of update can do
UpdateOutcomes(model, j) == {Update(model, j), Rejected(model, j)}

(***************************************************************************)
(* The retry policy around scrape_url:                                     *)
(*   @retry(stop=stop_after_attempt(3), wait=wait_exponential(...))        *)
(* tenacity's default retry condition retries on any exception, so the     *)
(* policy does not look at what kind of error an attempt raised.           *)
(***************************************************************************)
\* what one extractor attempt can do: return data, or raise an error the
\* caller would call retryable (timeout, 5xx) or not (404, ValueError)
AttemptOutcomes == {"ok", "retryable", "fatal"}

\* stop_after_attempt(3)
MaxAttemptNumber == 3

\* an off-by-one stop condition
StopAfterAttemptLate(attempt_number) == attempt_number > MaxAttemptNumber

StopAfterAttempt(attempt_number) == attempt_number >= MaxAttemptNumber

\* retry_if_exception_type(): every raised exception asks for a retry
RetryIf(outcome) == outcome # "ok"

\* wait_exponential(multiplier=1, min=4, max=10)
WaitMultiplier == 1
WaitMin == 4
WaitMax == 10

\* exp_base ** n with tenacity's default exp_base of 2
RECURSIVE ExpBasePow(_)
ExpBasePow(n) == IF n = 0 THEN 1 ELSE 2 * ExpBasePow(n - 1)

Min(a, b) == IF a < b THEN a ELSE b
Max(a, b) == IF a > b THEN a ELSE b

\* an exponential wait without the clamp
WaitExponentialUnclamped(attempt_number) ==
    WaitMultiplier * ExpBasePow(attempt_number - 1)

\* the seconds tenacity sleeps after attempt attempt_number failed:
\* max(max(0, min), min(multiplier * exp_base ** (attempt_number - 1), max))
WaitExponential(attempt_number) ==
    Max(Max(0, WaitMin),
        Min(WaitMultiplier * ExpBasePow(attempt_number - 1), WaitMax))

\* a policy that tries once more after a first attempt that succeeded
AfterAttemptAgain(attempt_number, outcome) ==
    IF ~RetryIf(outcome)
    THEN IF attempt_number = 1 THEN "sleep" ELSE "return"
    ELSE IF StopAfterAttempt(attempt_number) THEN "raise"
    ELSE "sleep"

\* tenacity after attempt attempt_number ended with outcome:
\* "return" the value, "raise" RetryError, or "sleep" and try again
AfterAttempt(attempt_number, outcome) ==
    IF ~RetryIf(outcome) THEN "return"
    ELSE IF StopAfterAttempt(attempt_number) THEN "raise"
    ELSE "sleep"

(***************************************************************************)
(* Entry point "execute": ExecuteScrapingJobUseCase.execute(job_id),       *)
(* called by the callers in Callers on the same stored job.  Each await is *)
(* a step; callers have their own sessions and entity objects.             *)
(***************************************************************************)
Callers == {1, 2}

\* a caller before its call; job is its local entity (set by find_by_id),
\* i the index of the for loop over job.targets, attempt the number of
\* scrape_url attempts made for target i, ret the entity execute returned.
\* History kept for the properties: found, the entity find_by_id returned;
\* failed, the targets whose extraction raised in _scrape_target;
\* settled, the targets whose _scrape_target call has returned;
\* dispatched, whether this call has invoked an extractor; updates, the
\* repository updates it has made
NewCall ==
    [pc |-> "find", job |-> ScrapingJob(<<>>), i |-> 1, attempt |-> 0,
     ret |-> ScrapingJob(<<>>), found |-> ScrapingJob(<<>>), failed |-> {},
     settled |-> {}, dispatched |-> FALSE, updates |-> 0]

otherThanExec == <<entry, job, last, bulk, units, sem, req>>

\* job = await self.job_repository.find_by_id(job_id); if not job: raise
ExecFind(c) ==
    /\ entry = "execute"
    /\ ex[c].pc = "find"
    /\ LET f == FindById(db) IN
         ex' = [ex EXCEPT ![c].pc = IF f.found THEN "start" ELSE "not_found",
                          ![c].job = f.job,
                          ![c].found = f.job]
    /\ UNCHANGED <<now, db, otherThanExec>>

\* a start() that is followed by the scraping loop, not by an update
ExecStartNoUpdate(c) ==
    /\ entry = "execute"
    /\ ex[c].pc = "start"
    /\ \E t \in UtcNow(now) :
         LET r == Start(ex[c].job, t) IN
           /\ now' = t
           /\ ex' = [ex EXCEPT ![c].pc = IF r.raised THEN "start_raised"
                                         ELSE "scrape",
                               ![c].job = r.job]
    /\ UNCHANGED <<db, otherThanExec>>

\* job.start(): a ValueError leaves execute at once
ExecStart(c) ==
    /\ entry = "execute"
    /\ ex[c].pc = "start"
    /\ \E t \in UtcNow(now) :
         LET r == Start(ex[c].job, t) IN
           /\ now' = t
           /\ ex' = [ex EXCEPT ![c].pc = IF r.raised THEN "start_raised"
                                         ELSE "update1",
                               ![c].job = r.job]
    /\ UNCHANGED <<db, otherThanExec>>

\* await self.job_repository.update(job)  (outside the try block)
ExecUpdateStarted(c) ==
    /\ entry = "execute"
    /\ ex[c].pc = "update1"
    /\ \E u \in UpdateOutcomes(db, ex[c].job) :
         /\ db' = u.model
         /\ ex' = [ex EXCEPT ![c].pc = IF u.raised THEN "raised" ELSE "scrape",
                             ![c].updates = @ + 1]
    /\ UNCHANGED <<now, otherThanExec>>

\* one attempt of web_scraper.scrape_url(target) for target i, inside
\* _scrape_target: data is added to job.results; RetryError is caught by
\* _scrape_target (printed, None returned) and the loop goes on
ExecAttempt(c) ==
    /\ entry = "execute"
    /\ ex[c].pc = "scrape"
    /\ ex[c].i <= Len(ex[c].job.targets)
    /\ DataTypeOf(ex[c].job.targets[ex[c].i]) = "general"
    /\ \E o \in AttemptOutcomes :
         LET e == ex[c]
             n == e.attempt + 1
             url == e.job.targets[e.i]
             sd == ScrapedData(url, BasicPageInfo)
             d == AfterAttempt(n, IF o = "ok" /\ sd.raised THEN "fatal" ELSE o)
         IN ex' = [ex EXCEPT
               ![c].dispatched = TRUE,
               ![c].failed = IF d = "raise" THEN @ \cup {e.i} ELSE @,
               ![c].settled = IF d = "sleep" THEN @ ELSE @ \cup {e.i},
               ![c].attempt = IF d = "sleep" THEN n ELSE 0,
               ![c].i = IF d = "sleep" THEN @ ELSE @ + 1,
               ![c].job = IF d = "return"
                          THEN AddResult(@, sd.data).job ELSE @]
    /\ UNCHANGED <<now, db, otherThanExec>>

\* target i has a typed data_type: _scrape_job_listing and its siblings
\* make one call to the typed scraper, which returns a list (a ScrapedData
\* is built), an empty list (None) or raises (caught, None)
ExecTyped(c) ==
    /\ entry = "execute"
    /\ ex[c].pc = "scrape"
    /\ ex[c].i <= Len(ex[c].job.targets)
    /\ DataTypeOf(ex[c].job.targets[ex[c].i]) = "job_listing"
    /\ \E o \in {"listings", "empty", "raise"} :
         LET e == ex[c]
             url == e.job.targets[e.i]
             sd == ScrapedData(url, JobListingContent)
             raises == o = "raise" \/ (o = "listings" /\ sd.raised)
         IN ex' = [ex EXCEPT
               ![c].dispatched = TRUE,
               ![c].failed = IF raises THEN @ \cup {e.i} ELSE @,
               ![c].settled = @ \cup {e.i},
               ![c].i = @ + 1,
               ![c].job = IF o = "listings" /\ ~raises
                          THEN AddResult(@, sd.data).job ELSE @]
    /\ UNCHANGED <<now, db, otherThanExec>>

\* a finalization that treats a job without targets as a fault
FinalizeFailsEmpty(j, t) ==
    IF j.targets = <<>>
    THEN Fail(j, "no targets", t)
    ELSE LET c == Complete(j, t) IN
           IF c.raised THEN Fail(j, "Cannot complete job", t) ELSE c

\* a fallback that writes the failure without asking fail()
FinalizeForcesFail(j, t) ==
    LET c == Complete(j, t) IN
      IF c.raised
      THEN Return([j EXCEPT !.status = FAILED,
                            !.error_message = "Cannot complete job",
                            !.completed_at = t])
      ELSE c

\* job.complete(); except Exception as e: job.fail(str(e))
Finalize(j, t) ==
    LET c == Complete(j, t) IN
      IF c.raised THEN Fail(j, "Cannot complete job", t) ELSE c

ExecFinalize(c) ==
    /\ entry = "execute"
    /\ ex[c].pc = "scrape"
    /\ ex[c].i > Len(ex[c].job.targets)
    /\ \E t \in UtcNow(now) :
         LET r == Finalize(ex[c].job, t) IN
           /\ now' = t
           /\ ex' = [ex EXCEPT ![c].pc = IF r.raised THEN "raised" ELSE "update2",
                               ![c].job = r.job]
    /\ UNCHANGED <<db, otherThanExec>>

\* return await self.job_repository.update(job)
ExecUpdateFinal(c) ==
    /\ entry = "execute"
    /\ ex[c].pc = "update2"
    /\ \E u \in UpdateOutcomes(db, ex[c].job) :
         /\ db' = u.model
         /\ ex' = [ex EXCEPT ![c].pc = IF u.raised THEN "raised" ELSE "done",
                             ![c].updates = @ + 1,
                             ![c].ret = IF u.raised THEN @ ELSE u.job]
    /\ UNCHANGED <<now, otherThanExec>>

\* the cancellation signal: while the stored job is in progress a client
\* other than the running calls loads it, calls cancel() and stores it
\* (execute holds its own entity and takes no other signal)
ExternalCancel ==
    /\ entry = "execute"
    /\ db.exists
    /\ db.status = IN_PROGRESS
    /\ \E t \in UtcNow(now) :
         LET r == Cancel(FindById(db).job, t) IN
           /\ ~r.raised
           /\ now' = t
           /\ db' = Update(db, r.job).model
    /\ UNCHANGED <<ex, otherThanExec>>

\* job.cancel() applied once to the entity object a running execution
\* holds, between its start() and its finalization
CancelJobObject(c) ==
    /\ entry = "execute"
    /\ ex[c].pc \in {"update1", "scrape"}
    /\ ex[c].job.status = IN_PROGRESS
    /\ \E t \in UtcNow(now) :
         LET r == Cancel(ex[c].job, t) IN
           /\ ~r.raised
           /\ now' = t
           /\ ex' = [ex EXCEPT ![c].job = r.job]
    /\ UNCHANGED <<db, otherThanExec>>

ExecNext ==
    \/ \E c \in Callers :
          \/ ExecFind(c)
          \/ ExecStart(c)
          \/ ExecUpdateStarted(c)
          \/ ExecAttempt(c)
          \/ ExecTyped(c)
          \/ ExecFinalize(c)
          \/ ExecUpdateFinal(c)
    \/ ExternalCancel

(***************************************************************************)
(* Entry point "bulk": BulkScrapingUseCase.execute(targets) with           *)
(* HttpWebScraperService.scrape_multiple_urls.  bulk is the engine's       *)
(* frame, units[k] the task scrape_with_semaphore(targets[k]) and sem the  *)
(* value of the asyncio.Semaphore.                                         *)
(***************************************************************************)
\* a gate that never closes
LockedNever(value) == FALSE

\* asyncio.Semaphore.locked(): no slot is free
Locked(value) == value = 0

\* asyncio.Semaphore.acquire() once a slot is free
Acquire(value) == value - 1

\* a release on the success path only
AExitOnReturn(value, how) == IF how = "return" THEN value + 1 ELSE value

\* `async with semaphore` leaves through __aexit__, which releases the slot
\* whether the body returned or raised
AExit(value, how) == value + 1

\* a task before gather() schedules it; attempt is tenacity's
\* attempt_number, result what the task ended with ("data", "exc") once
\* pc = "done".  History kept for the properties: invoked, the extractor
\* invocations made for the target; errors, how many of them raised;
\* fatal, whether one of them raised a non-retryable error; waits, the
\* seconds of the backoff sleeps made so far
NewUnit ==
    [pc |-> "new", attempt |-> 0, result |-> "none",
     invoked |-> 0, errors |-> 0, fatal |-> FALSE, waits |-> <<>>]

Units == DOMAIN units

\* the tasks that hold a slot: admitted through the semaphore, not yet out
InFlight == {u \in Units : units[u].pc \in {"delay", "attempt", "backoff"}}

\* a race: the first task to end is enough
SettledAny == \E u \in Units : units[u].pc = "done"

\* gather() returns once every task has ended
Settled == \A u \in Units : units[u].pc = "done"

otherThanBulk == <<entry, job, last, ex, req>>

\* job = ScrapingJob(name, targets); job = await self.job_repository.save(job)
BulkSave ==
    /\ entry = "bulk"
    /\ bulk.pc = "save"
    /\ LET m == Save(bulk.job) IN
         /\ db' = m
         /\ bulk' = [bulk EXCEPT !.pc = "start", !.job = ModelToEntity(m)]
    /\ UNCHANGED <<now, units, sem, otherThanBulk>>

\* job.start()
BulkStart ==
    /\ entry = "bulk"
    /\ bulk.pc = "start"
    /\ \E t \in UtcNow(now) :
         LET r == Start(bulk.job, t) IN
           /\ now' = t
           /\ bulk' = [bulk EXCEPT !.pc = IF r.raised THEN "raised" ELSE "update1",
                                   !.job = r.job]
    /\ UNCHANGED <<db, units, sem, otherThanBulk>>

\* await self.job_repository.update(job)
BulkUpdateStarted ==
    /\ entry = "bulk"
    /\ bulk.pc = "update1"
    /\ \E u \in UpdateOutcomes(db, bulk.job) :
         /\ db' = u.model
         /\ bulk' = [bulk EXCEPT !.pc = IF u.raised THEN "raised" ELSE "call"]
    /\ UNCHANGED <<now, units, sem, otherThanBulk>>

\* scrape_multiple_urls: semaphore = asyncio.Semaphore(max_concurrent);
\* tasks = [...]; asyncio.gather(*tasks, return_exceptions=True)
BulkGather ==
    /\ entry = "bulk"
    /\ bulk.pc = "call"
    /\ sem' = bulk.max_concurrent
    /\ units' = [u \in Units |-> [NewUnit EXCEPT !.pc = "waiting"]]
    /\ bulk' = [bulk EXCEPT !.pc = "gather"]
    /\ UNCHANGED <<now, db, otherThanBulk>>

\* async with semaphore: the task gets a slot when one is free and goes on
\* to await asyncio.sleep(settings.scraping_delay)
UnitAcquire(u) ==
    /\ entry = "bulk"
    /\ units[u].pc = "waiting"
    /\ ~Locked(sem)
    /\ sem' = Acquire(sem)
    /\ units' = [units EXCEPT ![u].pc = "delay"]
    /\ UNCHANGED <<now, db, bulk, otherThanBulk>>

\* an invocation that waits neither for a slot nor for the delay
UnitInvokeAtOnce(u) ==
    /\ entry = "bulk"
    /\ units[u].pc \in {"waiting", "delay", "backoff"}
    /\ units' = [units EXCEPT ![u].pc = "attempt",
                              ![u].attempt = @ + 1,
                              ![u].invoked = @ + 1]
    /\ UNCHANGED <<now, db, bulk, sem, otherThanBulk>>

\* the sleep (rate-limit delay or tenacity's backoff wait) is over: the
\* next attempt of scrape_url starts and the extractor is invoked
UnitInvoke(u) ==
    /\ entry = "bulk"
    /\ units[u].pc \in {"delay", "backoff"}
    /\ units' = [units EXCEPT ![u].pc = "attempt",
                              ![u].attempt = @ + 1,
                              ![u].invoked = @ + 1]
    /\ UNCHANGED <<now, db, bulk, sem, otherThanBulk>>

\* a task that gives its slot back whenever it goes to sleep
UnitAttemptEndsReleasing(u) ==
    /\ entry = "bulk"
    /\ units[u].pc = "attempt"
    /\ \E o \in AttemptOutcomes :
         LET sd == ScrapedData(bulk.job.targets[u], BasicPageInfo)
             d == AfterAttempt(units[u].attempt,
                               IF o = "ok" /\ sd.raised THEN "fatal" ELSE o)
         IN
           /\ units' = [units EXCEPT
                 ![u].pc = IF d = "sleep" THEN "backoff" ELSE "done",
                 ![u].fatal = @ \/ (o = "fatal"),
                 ![u].errors = IF o = "ok" THEN @ ELSE @ + 1,
                 ![u].waits = IF d = "sleep"
                              THEN Append(@, WaitExponential(units[u].attempt))
                              ELSE @,
                 ![u].result = CASE d = "return" -> "data"
                                 [] d = "raise" -> "exc"
                                 [] OTHER -> @]
           /\ sem' = AExit(sem, d)
           /\ bulk' = [bulk EXCEPT
                 !.first = IF d = "return" /\ @ = 0 THEN u ELSE @]
    /\ UNCHANGED <<now, db, otherThanBulk>>

\* the attempt ends: tenacity returns the data, raises RetryError or sleeps
\* before the next attempt; returning or raising leaves the async with
UnitAttemptEnds(u) ==
    /\ entry = "bulk"
    /\ units[u].pc = "attempt"
    /\ \E o \in AttemptOutcomes :
         LET sd == ScrapedData(bulk.job.targets[u], BasicPageInfo)
             d == AfterAttempt(units[u].attempt,
                               IF o = "ok" /\ sd.raised THEN "fatal" ELSE o)
         IN
           /\ units' = [units EXCEPT
                 ![u].pc = IF d = "sleep" THEN "backoff" ELSE "done",
                 ![u].fatal = @ \/ (o = "fatal"),
                 ![u].errors = IF o = "ok" THEN @ ELSE @ + 1,
                 ![u].waits = IF d = "sleep"
                              THEN Append(@, WaitExponential(units[u].attempt))
                              ELSE @,
                 ![u].result = CASE d = "return" -> "data"
                                 [] d = "raise" -> "exc"
                                 [] OTHER -> @]
           /\ sem' = IF d = "sleep" THEN sem ELSE AExit(sem, d)
           /\ bulk' = [bulk EXCEPT
                 !.first = IF d = "return" /\ @ = 0 THEN u ELSE @]
    /\ UNCHANGED <<now, db, otherThanBulk>>

\* what gather returned, in task order: a ScrapedData or the exception
Gathered ==
    [u \in Units |->
       IF units[u].result = "data"
       THEN ScrapedData(bulk.job.targets[u], BasicPageInfo).data
       ELSE ExcResult(bulk.job.targets[u], "RetryError")]

\* for result in results: exceptions are logged, the others are kept
IsException(result) == result.kind # "data"

RECURSIVE KeepData(_)
KeepData(results) ==
    IF results = <<>> THEN <<>>
    ELSE IF IsException(Head(results))
         THEN KeepData(Tail(results))
         ELSE <<Head(results)>> \o KeepData(Tail(results))

\* a gather that returns what has ended so far, without joining every task
BulkGatheredEarly ==
    /\ entry = "bulk"
    /\ bulk.pc = "gather"
    /\ bulk' = [bulk EXCEPT !.pc = "aggregate",
                            !.scraped_data_list = KeepData(Gathered)]
    /\ UNCHANGED <<now, db, units, sem, otherThanBulk>>

\* gather has joined every task; scrape_multiple_urls filters and returns
BulkGathered ==
    /\ entry = "bulk"
    /\ bulk.pc = "gather"
    /\ Settled
    /\ bulk' = [bulk EXCEPT !.pc = "aggregate",
                            !.scraped_data_list = KeepData(Gathered)]
    /\ UNCHANGED <<now, db, units, sem, otherThanBulk>>

\* a loop that adds every item twice
RECURSIVE AddResultsTwice(_, _)
AddResultsTwice(j, list) ==
    IF list = <<>> THEN j
    ELSE AddResultsTwice(
           AddResult(AddResult(j, Head(list)).job, Head(list)).job,
           Tail(list))

\* for scraped_data in scraped_data_list: job.add_result(scraped_data)
RECURSIVE AddResults(_, _)
AddResults(j, list) ==
    IF list = <<>> THEN j
    ELSE AddResults(AddResult(j, Head(list)).job, Tail(list))

\* the add_result loop, then job.complete() (job.fail(str(e)) on exception)
BulkAggregate ==
    /\ entry = "bulk"
    /\ bulk.pc = "aggregate"
    /\ \E t \in UtcNow(now) :
         LET r == Finalize(AddResults(bulk.job, bulk.scraped_data_list), t) IN
           /\ now' = t
           /\ bulk' = [bulk EXCEPT !.pc = IF r.raised THEN "raised" ELSE "update2",
                                   !.job = r.job]
    /\ UNCHANGED <<db, units, sem, otherThanBulk>>

\* return await self.job_repository.update(job)
BulkUpdateFinal ==
    /\ entry = "bulk"
    /\ bulk.pc = "update2"
    /\ \E u \in UpdateOutcomes(db, bulk.job) :
         /\ db' = u.model
         /\ bulk' = [bulk EXCEPT !.pc = IF u.raised THEN "raised" ELSE "done",
                                 !.ret = IF u.raised THEN @ ELSE u.job]
    /\ UNCHANGED <<now, units, sem, otherThanBulk>>

BulkNext ==
    \/ BulkSave
    \/ BulkStart
    \/ BulkUpdateStarted
    \/ BulkGather
    \/ \E u \in Units : UnitAcquire(u)
    \/ \E u \in Units : UnitInvoke(u)
    \/ \E u \in Units : UnitAttemptEnds(u)
    \/ BulkGathered
    \/ BulkAggregate
    \/ BulkUpdateFinal

(***************************************************************************)
(* Initial states and specifications.                                      *)
(***************************************************************************)
\* the engine's frame before BulkScrapingUseCase.execute runs.  History
\* kept for the properties: first, the task whose scrape_url was the first
\* to return data (0 while none has)
NewBulk(targets, max_concurrent) ==
    [pc |-> "save", job |-> ScrapingJob(targets),
     max_concurrent |-> max_concurrent, scraped_data_list |-> <<>>,
     ret |-> ScrapingJob(<<>>), first |-> 0]

\* no request handler is involved.  pc is the handler's position, status
\* the HTTP status it answered with (0 before), task_added whether
\* background_tasks holds _execute_bulk_scraping_background, calls the
\* number of BulkScrapingUseCase.execute calls made for the request
NoRequest ==
    [pc |-> "none", status |-> 0, task_added |-> FALSE, calls |-> 0]

\* a job as created (pending, no timestamps, no results)
InitJob ==
    /\ entry = "entity"
    /\ now = 0
    /\ \E n \in 0..MaxTargets : job = ScrapingJob(TargetList(n))
    /\ last = NoCall
    /\ db = NoRow
    /\ ex = [c \in Callers |-> NewCall]
    /\ bulk = NewBulk(<<>>, 1)
    /\ units = <<>>
    /\ sem = 0
    /\ req = NoRequest

\* the rows a stored job can be in when execute is called on it
StoredRows ==
    { ScrapingJobModel(PENDING, TargetList(n), NoneTime, NoneTime, NoneMsg)
        : n \in 0..MaxExecTargets }
    \cup { ScrapingJobModel(IN_PROGRESS, TargetList(n), 0, NoneTime, NoneMsg)
        : n \in 0..MaxExecTargets }
    \cup { ScrapingJobModel(COMPLETED, TargetList(n), 0, 0, NoneMsg)
        : n \in 0..MaxExecTargets }
    \cup { ScrapingJobModel(FAILED, TargetList(n), 0, 0, "boom")
        : n \in 0..MaxExecTargets }
    \cup { ScrapingJobModel(CANCELLED, TargetList(n), NoneTime, 0, NoneMsg)
        : n \in 0..MaxExecTargets }

InitExec ==
    /\ entry = "execute"
    /\ now = 0
    /\ job = ScrapingJob(<<>>)
    /\ last = NoCall
    /\ db \in StoredRows
    /\ ex = [c \in Callers |-> NewCall]
    /\ bulk = NewBulk(<<>>, 1)
    /\ units = <<>>
    /\ sem = 0
    /\ req = NoRequest

InitBulk ==
    /\ entry = "bulk"
    /\ now = 0
    /\ job = ScrapingJob(<<>>)
    /\ last = NoCall
    /\ db = NoRow
    /\ ex = [c \in Callers |-> NewCall]
    /\ \E n \in 0..MaxTargets, mc \in 1..MaxConc :
         /\ bulk = NewBulk(TargetList(n), mc)
         /\ units = [u \in 1..n |-> NewUnit]
    /\ sem = 0
    /\ req = NoRequest

\* a POST /api/v1/bulk-scrape request has reached bulk_scrape: the use
\* case has not been called yet
InitRequest ==
    /\ entry = "bulk"
    /\ now = 0
    /\ job = ScrapingJob(<<>>)
    /\ last = NoCall
    /\ db = NoRow
    /\ ex = [c \in Callers |-> NewCall]
    /\ \E n \in 0..MaxTargets, mc \in 1..MaxConc :
         /\ bulk = [NewBulk(TargetList(n), mc) EXCEPT !.pc = "idle"]
         /\ units = [u \in 1..n |-> NewUnit]
    /\ sem = 0
    /\ req = [NoRequest EXCEPT !.pc = "open"]

Init == InitJob \/ InitExec \/ InitBulk

Next == JobNext \/ ExecNext \/ BulkNext

Spec == Init /\ [][Next]_vars

SpecJob == InitJob /\ [][JobNext]_vars

SpecExec == InitExec /\ [][ExecNext]_vars

SpecBulk == InitBulk /\ [][BulkNext]_vars

(***************************************************************************)
(* The request handler bulk_scrape (src/main.py) around the bulk entry     *)
(* point.  It opens a session, builds the use case, adds                   *)
(* _execute_bulk_scraping_background(bulk_use_case, targets, job_name) to  *)
(* the background tasks, then awaits bulk_use_case.execute(targets,        *)
(* job_name) itself and answers with its job; any exception is answered    *)
(* with status 500.  The background tasks of a request run after its       *)
(* response was sent, and only for a handler that returned.                *)
(***************************************************************************)
\* get_db_session is an async generator function: `async with` enters it
\* only where it is wrapped as a context manager, and raises otherwise
SessionOutcomes == {"session", "raises"}

\* async with get_db_session() as session: job_repo, web_scraper and
\* bulk_use_case are built; an exception is answered with status 500
ReqOpenSession ==
    /\ req.pc = "open"
    /\ \E o \in SessionOutcomes :
         req' = IF o = "session"
                THEN [req EXCEPT !.pc = "add_task"]
                ELSE [req EXCEPT !.pc = "finished", !.status = 500]
    /\ UNCHANGED <<entry, now, job, last, db, ex, bulk, units, sem>>

\* background_tasks.add_task(_execute_bulk_scraping_background, ...)
ReqAddTask ==
    /\ req.pc = "add_task"
    /\ req' = [req EXCEPT !.pc = "call", !.task_added = TRUE]
    /\ UNCHANGED <<entry, now, job, last, db, ex, bulk, units, sem>>

\* a call of bulk_use_case.execute(targets, job_name) begins: a new frame
\* for the same target list
CallExecute ==
    /\ bulk' = NewBulk(bulk.job.targets, bulk.max_concurrent)
    /\ units' = [u \in Units |-> NewUnit]
    /\ sem' = 0

\* job = await bulk_use_case.execute(targets, request.job_name)
ReqExecute ==
    /\ req.pc = "call"
    /\ CallExecute
    /\ req' = [req EXCEPT !.pc = "awaiting", !.calls = @ + 1]
    /\ UNCHANGED <<entry, now, job, last, db, ex>>

\* return _convert_job_to_response(job), or HTTPException(500) when
\* execute raised; the tasks added are dropped with a response that an
\* exception produced
ReqRespond ==
    /\ req.pc = "awaiting"
    /\ bulk.pc \in {"done", "raised"}
    /\ req' = IF bulk.pc = "done"
              THEN [req EXCEPT !.pc = "responded", !.status = 200]
              ELSE [req EXCEPT !.pc = "finished", !.status = 500]
    /\ UNCHANGED <<entry, now, job, last, db, ex, bulk, units, sem>>

\* after the response: _execute_bulk_scraping_background awaits
\* use_case.execute(targets, job_name)
ReqBackground ==
    /\ req.pc = "responded"
    /\ req.task_added
    /\ CallExecute
    /\ req' = [req EXCEPT !.pc = "background", !.calls = @ + 1]
    /\ UNCHANGED <<entry, now, job, last, db, ex>>

\* the background call returned, or raised and the exception was printed
ReqBackgroundEnds ==
    /\ req.pc = "background"
    /\ bulk.pc \in {"done", "raised"}
    /\ req' = [req EXCEPT !.pc = "finished"]
    /\ UNCHANGED <<entry, now, job, last, db, ex, bulk, units, sem>>

RequestNext ==
    \/ BulkNext
    \/ ReqOpenSession
    \/ ReqAddTask
    \/ ReqExecute
    \/ ReqRespond
    \/ ReqBackground
    \/ ReqBackgroundEnds

SpecRequest == InitRequest /\ [][RequestNext]_vars

\* execute with cancel() applied to the engine's job object on the way
CancelNext ==
    \/ ExecNext
    \/ \E c \in Callers : CancelJobObject(c)

SpecCancel == InitExec /\ [][CancelNext]_vars

(***************************************************************************)
(* Properties.                                                             *)
(***************************************************************************)
TransitionOps == {"start", "complete", "fail", "cancel"}

\* the transition table: the (status, operation) pairs that are allowed
Allowed(status, op) ==
    \/ status = PENDING /\ op = "start"
    \/ status = IN_PROGRESS /\ op = "complete"
    \/ status \in {PENDING, IN_PROGRESS} /\ op \in {"fail", "cancel"}

SameStateFields(a, b) ==
    /\ a.status = b.status
    /\ a.started_at = b.started_at
    /\ a.completed_at = b.completed_at
    /\ a.error_message = b.error_message

\* C1: a transition that is not in the table raises and leaves status,
\* started_at, completed_at and error_message as they were (in particular
\* cancel() on a failed, a cancelled or a completed job).
C1_IllegalTransitionRejected ==
    (last.op \in TransitionOps /\ ~Allowed(last.pre.status, last.op))
       => (last.raised /\ SameStateFields(job, last.pre))

\* the job the table prescribes after an allowed transition made at `t`
TableEffect(pre, op, msg, t) ==
    CASE op = "start" ->
           [pre EXCEPT !.status = IN_PROGRESS, !.started_at = t]
      [] op = "complete" ->
           [pre EXCEPT !.status = COMPLETED, !.completed_at = t]
      [] op = "fail" ->
           [pre EXCEPT !.status = FAILED, !.error_message = msg,
                       !.completed_at = t]
      [] op = "cancel" ->
           [pre EXCEPT !.status = CANCELLED, !.completed_at = t]

\* C2: every allowed transition succeeds with exactly the effect the table
\* lists (status, the timestamp set to the clock's reading, error_message
\* for fail) and changes no other field: targets, results and the fields
\* the row does not list stay as before.
C2_AllowedTransitionEffect ==
    (last.op \in TransitionOps /\ Allowed(last.pre.status, last.op))
       => /\ ~last.raised
          /\ job = TableEffect(last.pre, last.op, last.msg, now)
          /\ now # NoneTime

\* an in-progress job holding targets and a result has just been failed
C2_Witness ==
    /\ last.op = "fail"
    /\ last.pre.status = IN_PROGRESS
    /\ last.msg = "boom"
    /\ job.status = FAILED
    /\ Len(job.results) > 0
    /\ Len(job.targets) > 0
    /\ job.started_at < job.completed_at

Range(seq) == {seq[k] : k \in DOMAIN seq}

\* the targets of caller c's job that got no Result in this execution
ExecNoResult(c) ==
    {k \in DOMAIN ex[c].job.targets :
       \A r \in Range(ex[c].job.results) :
          r.source_url # ex[c].job.targets[k]}

\* the targets of the bulk job whose task ended with an exception
BulkFailed == {u \in Units : units[u].result = "exc"}

\* C3: whatever subset F of the targets fails, the execution ends with
\* status completed and the job it yields holds len(targets) - |F|
\* results (one per target that did not fail), on both entry points.
C3_PartialFailureCompletes ==
    /\ \A c \in Callers :
         ex[c].pc = "done" =>
           /\ ex[c].ret.status = COMPLETED
           /\ Len(ex[c].ret.results)
                = Len(ex[c].ret.targets) - Cardinality(ExecNoResult(c))
    /\ bulk.pc = "done" =>
           /\ bulk.ret.status = COMPLETED
           /\ Len(bulk.ret.results)
                = Len(bulk.ret.targets) - Cardinality(BulkFailed)

\* the URLs of the failure records a results list holds
FailureUrls(results) ==
    {results[k].source_url : k \in {i \in DOMAIN results : IsException(results[i])}}

\* the failure records the engine still holds once execute has returned:
\* the job it worked on, the job it returned and, on the bulk path, the
\* list scrape_multiple_urls returned (printed or logged lines are output,
\* not state, and the gather() list is local to scrape_multiple_urls)
ExecRetained(c) ==
    FailureUrls(ex[c].job.results) \cup FailureUrls(ex[c].ret.results)

BulkRetained ==
    FailureUrls(bulk.job.results) \cup FailureUrls(bulk.ret.results)
       \cup FailureUrls(bulk.scraped_data_list)

\* C4: after an execution the engine holds one failure record (URL and
\* reason) for every target whose extraction finally failed.
C4_FailuresRetained ==
    /\ \A c \in Callers :
         ex[c].pc = "done" =>
           ExecRetained(c) = {ex[c].job.targets[k] : k \in ex[c].failed}
    /\ bulk.pc = "done" =>
           BulkRetained = {bulk.job.targets[u] : u \in BulkFailed}

\* scrape_multiple_urls has been called, so its semaphore exists (a call
\* that left at the update after start() never got there)
GateCreated ==
    \/ bulk.pc \in {"gather", "aggregate", "update2", "done"}
    \/ bulk.pc = "raised" /\ bulk.job.status # IN_PROGRESS

\* C5: the number of tasks admitted through the semaphore and not yet
\* released is between 0 and max_concurrent in every state, and so is the
\* semaphore's own counter.
C5_InFlightBounded ==
    GateCreated =>
        /\ Cardinality(InFlight) \in 0..bulk.max_concurrent
        /\ sem \in 0..bulk.max_concurrent

\* more targets than slots: the gate is full and a task waits
C5_Witness ==
    /\ bulk.max_concurrent = 2
    /\ Cardinality(InFlight) = 2
    /\ sem = 0
    /\ \E u \in Units : units[u].pc = "waiting"

\* C6: a slot is held only by a task that has not ended: the slots taken
\* are exactly those of the tasks in flight, whether tasks ended with data
\* or with an exception, and once every task has settled no slot is taken.
C6_SlotsReleased ==
    GateCreated =>
        /\ bulk.max_concurrent - sem = Cardinality(InFlight)
        /\ Settled => sem = bulk.max_concurrent

\* every task has settled, one with data and one with an exception, after
\* one of them had to wait for a slot
C6_Witness ==
    /\ bulk.pc = "gather"
    /\ Settled
    /\ Cardinality(Units) > bulk.max_concurrent
    /\ \E u \in Units : units[u].result = "exc"
    /\ \E u \in Units : units[u].result = "data"

\* C7: the extractor is never invoked more than 3 times for one target,
\* and a task all of whose attempts raised a retryable error ends after
\* exactly 3 invocations with the failure as its result.
C7_RetryBound ==
    /\ \A u \in Units :
         /\ units[u].invoked <= MaxAttemptNumber
         /\ (units[u].pc = "done" /\ ~units[u].fatal
               /\ units[u].errors = units[u].invoked)
              => (units[u].invoked = MaxAttemptNumber
                    /\ units[u].result = "exc")
    /\ \A c \in Callers : ex[c].attempt < MaxAttemptNumber

\* a task has ended after three retryable failures
C7_Witness ==
    \E u \in Units :
       /\ units[u].pc = "done"
       /\ ~units[u].fatal
       /\ units[u].errors = 3
       /\ units[u].result = "exc"

\* C8: once an attempt has raised a non-retryable error the task makes no
\* further attempt: it has ended with that failure.
C8_NoRetryAfterFatal ==
    \A u \in Units :
       units[u].fatal => (units[u].pc = "done" /\ units[u].result = "exc")

\* a call that is past job.start()
PastStart(c) == ex[c].pc \notin {"find", "not_found", "start"}

\* C9: a call that found the job in a status other than pending is stopped
\* by start(): it has invoked no extractor and made no repository update,
\* and its job is as find_by_id returned it.
C9_NonPendingRejected ==
    \A c \in Callers :
       (PastStart(c) /\ ex[c].found.status # PENDING) =>
          /\ ex[c].pc = "start_raised"
          /\ ~ex[c].dispatched
          /\ ex[c].updates = 0
          /\ ex[c].job = ex[c].found

\* a call on a completed job has been rejected while the stored row is
\* still the completed one
C9_Witness ==
    \E c \in Callers :
       /\ ex[c].pc = "start_raised"
       /\ ex[c].found.status = COMPLETED
       /\ db.status = COMPLETED

\* C10: of two concurrent execute calls on the same job at most one gets
\* past start().
C10_AtMostOneStarts ==
    Cardinality({c \in Callers : PastStart(c) /\ ex[c].pc # "start_raised"}) <= 1

\* the jobs a state holds: the entity the direct calls work on, each
\* call's own entity and the one it returned, and the stored row as an
\* entity
Jobs ==
    {job, bulk.job, bulk.ret} \cup {ex[c].job : c \in Callers}
       \cup {ex[c].ret : c \in Callers}
       \cup (IF db.exists THEN {ModelToEntity(db)} ELSE {})

\* C11: an execution of a job without targets invokes no extractor and
\* finalizes the job as completed with no results and success_rate 0; the
\* job it returns is the same.
C11_EmptyJobCompletes ==
    /\ \A c \in Callers :
         (ex[c].pc \in {"update2", "done"} /\ ex[c].found.targets = <<>>) =>
            /\ ~ex[c].dispatched
            /\ ex[c].job.status = COMPLETED
            /\ ex[c].job.results = <<>>
            /\ SuccessRate(ex[c].job) = Zero
            /\ ex[c].pc = "done" =>
                  /\ ex[c].ret.status = COMPLETED
                  /\ ex[c].ret.results = <<>>
                  /\ SuccessRate(ex[c].ret) = Zero
    /\ (bulk.pc \in {"update2", "done"} /\ bulk.job.targets = <<>>) =>
            /\ bulk.scraped_data_list = <<>>
            /\ bulk.job.status = COMPLETED
            /\ bulk.job.results = <<>>
            /\ SuccessRate(bulk.job) = Zero
            /\ bulk.pc = "done" =>
                  /\ bulk.ret.status = COMPLETED
                  /\ bulk.ret.results = <<>>
                  /\ SuccessRate(bulk.ret) = Zero

\* execute has returned for a stored job without targets
C11_Witness ==
    \E c \in Callers :
       /\ ex[c].pc = "done"
       /\ ex[c].found.targets = <<>>
       /\ ex[c].found.status = PENDING
       /\ ex[c].ret.status = COMPLETED

\* C12: in every reachable state every job's success_rate is in [0, 1].
C12_SuccessRateInUnitInterval ==
    \A j \in Jobs :
       LET r == SuccessRate(j) IN
         /\ r.den > 0
         /\ 0 <= r.num
         /\ r.num <= r.den

\* C13: success_rate is the quotient len(results) / len(targets) for a job
\* with targets and 0 for a job without targets, however many results the
\* job holds.
C13_SuccessRateValue ==
    \A j \in Jobs :
       LET r == SuccessRate(j) IN
         IF j.targets = <<>>
         THEN r.num = 0 /\ r.den = 1
         ELSE /\ r.den > 0
              /\ r.num * Len(j.targets) = Len(j.results) * r.den

\* a job without targets that holds results
C13_Witness ==
    /\ job.targets = <<>>
    /\ Len(job.results) = 2

\* C14: a job's duration is defined exactly when started_at and
\* completed_at are both set, a job failed or cancelled straight from
\* pending has none, and a defined duration is not negative.
C14_DurationDefinedNonNegative ==
    /\ \A j \in Jobs :
         LET d == Duration(j) IN
           /\ d.defined <=> (j.started_at # NoneTime /\ j.completed_at # NoneTime)
           /\ d.defined => d.seconds >= 0
    /\ (last.op \in {"fail", "cancel"} /\ last.pre.status = PENDING)
          => ~Duration(job).defined

\* a started job has ended at a later reading of the clock
C14_Witness ==
    /\ job.status \in {COMPLETED, FAILED, CANCELLED}
    /\ Duration(job).defined
    /\ Duration(job).seconds > 0

TerminalStatuses == {COMPLETED, FAILED, CANCELLED}

\* C15: add_result on a completed, failed or cancelled job raises and
\* leaves the results list as it was.
C15_AddResultRejectedWhenTerminal ==
    (last.op = "add_result" /\ last.pre.status \in TerminalStatuses)
       => (last.raised /\ job.results = last.pre.results)

\* C16: add_result, in whatever status, returns normally, appends exactly
\* one ScrapedData at the end of results and leaves status, started_at,
\* completed_at, error_message and targets as they were.
C16_AddResultFrame ==
    last.op = "add_result" =>
       /\ ~last.raised
       /\ SameStateFields(job, last.pre)
       /\ job.targets = last.pre.targets
       /\ Len(job.results) = Len(last.pre.results) + 1
       /\ SubSeq(job.results, 1, Len(last.pre.results)) = last.pre.results
       /\ ~IsException(job.results[Len(job.results)])

\* a second result has been added to a cancelled job that had been started
C16_Witness ==
    /\ last.op = "add_result"
    /\ last.pre.status = CANCELLED
    /\ last.pre.started_at # NoneTime
    /\ Len(last.pre.results) = 1
    /\ job.results[1] # job.results[2]

\* the call found a pending job and has finalized it
ExecFinalized(c) ==
    /\ ex[c].found.status = PENDING
    /\ ex[c].job.status \in {COMPLETED, FAILED}

BulkFinalized == bulk.job.status \in {COMPLETED, FAILED}

\* C17: complete() or fail() is called only once every target's extraction
\* has ended (with data, with nothing or with its final failure), and
\* every target's extraction has been run by then, whichever other targets
\* failed.
C17_FinalizeAfterAllSettled ==
    /\ \A c \in Callers :
         ExecFinalized(c) =>
            /\ ex[c].settled = DOMAIN ex[c].job.targets
            /\ ex[c].failed \subseteq ex[c].settled
    /\ BulkFinalized =>
         \A u \in Units :
            /\ units[u].pc = "done"
            /\ units[u].invoked >= 1
            /\ units[u].result \in {"data", "exc"}

\* the bulk job is finalized after its first target failed for good and a
\* later one returned data
C17_Witness ==
    /\ BulkFinalized
    /\ Cardinality(Units) >= 2
    /\ units[1].result = "exc"
    /\ units[2].result = "data"
    /\ Len(bulk.job.results) = Cardinality(Units) - 1

\* the targets of call c whose extraction has begun and not ended: the
\* call is between two attempts of scrape_url (tenacity's backoff sleep)
ExecInFlight(c) ==
    IF ex[c].pc = "scrape" /\ ex[c].attempt > 0 THEN {ex[c].i} ELSE {}

\* a step of call c that begins the extraction of target k
ExecBegins(c, k) ==
    /\ ex[c].i = k
    /\ ex[c].attempt = 0
    /\ ExecAttempt(c) \/ ExecTyped(c)

\* C18: while the extraction of one target of an execute call is suspended
\* (here: in retry backoff), the extraction of another target of the same
\* job that has not run yet can begin.
C18_UnitsRunConcurrently ==
    \A c \in Callers :
       \A k \in DOMAIN ex[c].job.targets :
          (ExecInFlight(c) # {} /\ k \notin ExecInFlight(c)
              /\ k \notin ex[c].settled)
             => ENABLED ExecBegins(c, k)

\* C19: the results of the bulk job are in the order in which the
\* extractions returned; in particular the first result is that of the
\* target whose extraction returned first.
C19_ResultsInCompletionOrder ==
    (BulkFinalized /\ bulk.first # 0) =>
       /\ bulk.job.results # <<>>
       /\ bulk.job.results[1].source_url = bulk.job.targets[bulk.first]

\* C20: an execution that left because a repository update raised has
\* failed its job: status failed and a non-empty error_message.
C20_RejectedUpdateFailsJob ==
    /\ \A c \in Callers :
         ex[c].pc = "raised" =>
            /\ ex[c].job.status = FAILED
            /\ ex[c].job.error_message \notin {NoneMsg, ""}
    /\ bulk.pc = "raised" =>
            /\ bulk.job.status = FAILED
            /\ bulk.job.error_message \notin {NoneMsg, ""}

\* C21: once the stored job has been cancelled during an execution it
\* stays cancelled (the execution does not end it as completed or failed)
\* and no call begins the extraction of a further target.
C21_CancellationHonoured ==
    [][db.status = CANCELLED =>
          /\ db'.status = CANCELLED
          /\ \A c \in Callers :
                ex[c].attempt = 0 =>
                   (ex'[c].i = ex[c].i /\ ex'[c].attempt = 0)]_vars

\* a call on a pending job has left execute, by return or by exception
ExecEnded(c) ==
    /\ ex[c].found.status = PENDING
    /\ ex[c].pc \in {"done", "raised"}

BulkEnded == bulk.pc \in {"done", "raised"}

\* C22: when an execution of a pending job has ended, its job is completed
\* or failed (not pending, not in_progress) and completed_at is set.
C22_EndsCompletedOrFailed ==
    /\ \A c \in Callers :
         ExecEnded(c) =>
            /\ ex[c].job.status \in {COMPLETED, FAILED}
            /\ ex[c].job.completed_at # NoneTime
    /\ BulkEnded =>
            /\ bulk.job.status \in {COMPLETED, FAILED}
            /\ bulk.job.completed_at # NoneTime

\* the URLs of the Results a job holds
ResultUrls(j) == {j.results[k].source_url : k \in DOMAIN j.results}

\* both entry points finalize as completed with one Result per target
\* whose extraction returned data
SameOutcome ==
    /\ \A c \in Callers :
         ExecFinalized(c) =>
            /\ ex[c].job.status = COMPLETED
            /\ Cardinality(ResultUrls(ex[c].job)) = Len(ex[c].job.results)
            /\ ResultUrls(ex[c].job) \subseteq
                  {ex[c].job.targets[k] : k \in ex[c].settled \ ex[c].failed}
    /\ BulkFinalized =>
            /\ bulk.job.status = COMPLETED
            /\ Cardinality(ResultUrls(bulk.job)) = Len(bulk.job.results)
            /\ ResultUrls(bulk.job) =
                  {bulk.job.targets[u] : u \in {v \in Units : units[v].result = "data"}}

\* a step that makes the first extractor attempt for a target is made by
\* a unit that is in its inter-dispatch delay (and so holds a gate slot),
\* on both entry points
SameLimits ==
    /\ \A u \in Units :
         (units[u].invoked = 0 /\ units'[u].invoked = 1)
            => units[u].pc = "delay"
    /\ \A c \in Callers :
         (ex[c].attempt = 0
             /\ (ex'[c].i # ex[c].i \/ ex'[c].attempt # 0))
            => ex[c].pc = "delay"

\* C23: the bulk entry point and execute end with the same status and the
\* same Results for the same per-target outcomes, and both run each
\* target's extraction under the gate, after the inter-dispatch delay and
\* with the same retry bound.
C23_EntryPointsEquivalent ==
    /\ [](SameOutcome /\ C7_RetryBound)
    /\ [][SameLimits]_vars

\* every Result a collection holds has content
AllHaveContent(results) ==
    \A k \in DOMAIN results : results[k].content # EmptyContent

\* C24: every Result in any job's results (and in the list the extractor
\* service returns) has a non-empty content mapping, and constructing a
\* Result with empty content raises, so that nothing is added.
C24_ResultsHaveContent ==
    /\ \A j \in Jobs : AllHaveContent(j.results)
    /\ AllHaveContent(bulk.scraped_data_list)
    /\ last.op = "ScrapedData" => (last.raised /\ job = last.pre)

\* a construction with empty content has just been refused on a job that
\* holds a Result
C24_Witness ==
    /\ last.op = "ScrapedData"
    /\ last.raised
    /\ Len(job.results) > 0

\* the Results for target u in the list scrape_multiple_urls returned
ResultsFor(u) ==
    {k \in DOMAIN bulk.scraped_data_list :
        bulk.scraped_data_list[k].source_url = bulk.job.targets[u]}

\* a task whose attempt k was the first to succeed has invoked the
\* extractor k times (k - 1 failures, then the success), ended with data
\* and not with a failure, and gives exactly one Result
FirstSuccessEnds ==
    \A u \in Units :
       (units[u].pc = "done" /\ units[u].result = "data") =>
          /\ units[u].invoked = units[u].errors + 1
          /\ units[u].invoked \in 1..MaxAttemptNumber
          /\ u \notin BulkFailed
          /\ bulk.pc \in {"aggregate", "update2", "done"}
                => Cardinality(ResultsFor(u)) = 1

\* a task that has ended makes no further attempt
NoAttemptAfterEnd ==
    \A u \in Units :
       units[u].pc = "done" => units'[u] = units[u]

\* C25: if attempt k is the first that succeeds, the extractor is invoked
\* exactly k times, the earlier failures are not the task's result, the
\* task yields exactly one Result, and no attempt follows the success.
C25_FirstSuccessStops ==
    /\ []FirstSuccessEnds
    /\ [][NoAttemptAfterEnd]_vars

\* a task succeeded at its third attempt and its Result has been returned
C25_Witness ==
    /\ bulk.pc = "aggregate"
    /\ \E u \in Units :
          /\ units[u].result = "data"
          /\ units[u].invoked = 3
          /\ units[u].errors = 2

\* C26: the backoff sleeps of one task are non-decreasing, none is longer
\* than the maximum and, with the coded policy, none is shorter than the
\* minimum: every sleep is in [4, 10] seconds.
C26_BackoffDelays ==
    \A u \in Units :
       \A k \in DOMAIN units[u].waits :
          /\ units[u].waits[k] <= WaitMax
          /\ units[u].waits[k] >= WaitMin
          /\ k > 1 => units[u].waits[k - 1] <= units[u].waits[k]
          /\ \A n \in units[u].attempt..MaxWaitAttempt :
                /\ WaitExponential(n) \in WaitMin..WaitMax
                /\ units[u].waits[k] <= WaitExponential(n)
                /\ WaitExponential(n) <= WaitExponential(n + 1)

\* a task has slept twice between its three attempts
C26_Witness ==
    \E u \in Units :
       /\ Len(units[u].waits) = 2
       /\ units[u].attempt = 3

\* a task enters its delay only by taking a free slot, and the extractor
\* is invoked only by a task that is in its delay (first attempt) or in
\* a backoff sleep (later attempts)
UnitStepOrder ==
    \A u \in Units :
       /\ (units[u].pc # "delay" /\ units'[u].pc = "delay")
             => (units[u].pc = "waiting" /\ sem > 0 /\ sem' = sem - 1)
       /\ units'[u].invoked # units[u].invoked
             => /\ units'[u].invoked = units[u].invoked + 1
                /\ u \in InFlight
                /\ units[u].pc = (IF units[u].invoked = 0 THEN "delay"
                                  ELSE "backoff")

\* a task that has not finished its delay has made no attempt
NoAttemptBeforeDelay ==
    \A u \in Units :
       units[u].pc \in {"new", "waiting", "delay"} => units[u].invoked = 0

\* C27: each task first acquires a slot, then waits the inter-dispatch
\* delay and only then makes its first attempt; no attempt is made by a
\* task that does not hold a slot or has not finished its delay.
C27_UnitStepOrder ==
    /\ []NoAttemptBeforeDelay
    /\ [][UnitStepOrder]_vars

\* one task is in its first attempt while another is still in its delay
\* and a third waits for a slot
C27_Witness ==
    \E u, v, w \in Units :
       /\ units[u].pc = "attempt" /\ units[u].invoked = 1
       /\ units[v].pc = "delay"
       /\ units[w].pc = "waiting"

\* the tasks that are in their inter-dispatch delay
InDelay == {u \in Units : units[u].pc = "delay"}

\* C28: two dispatches of one execution are at least scraping_delay
\* apart.  A task is dispatched scraping_delay after its admission, so
\* two dispatches are that far apart exactly when the later task is
\* admitted after the earlier one's delay has ended: no two tasks are in
\* their delay at the same time.
C28_DispatchSpacing ==
    Cardinality(InDelay) <= 1

\* where a call stands between its transitions and its updates: one
\* update, with status in_progress, before anything is dispatched, and a
\* second one with the terminal status
ExecUpdateOrder(c) ==
    /\ ex[c].pc = "update1" =>
          (ex[c].updates = 0 /\ ex[c].job.status = IN_PROGRESS)
    /\ ex[c].pc = "scrape" =>
          (ex[c].updates = 1 /\ ex[c].job.status = IN_PROGRESS)
    /\ ex[c].dispatched => ex[c].updates >= 1
    /\ ex[c].pc = "update2" =>
          (ex[c].updates = 1 /\ ex[c].job.status \in {COMPLETED, FAILED})
    /\ ex[c].pc = "done" => ex[c].updates = 2

BulkUpdateOrder ==
    /\ bulk.pc \in {"save", "start", "update1"} =>
          \A u \in Units : units[u].pc = "new"
    /\ bulk.pc = "update1" => bulk.job.status = IN_PROGRESS
    /\ bulk.pc = "update2" => bulk.job.status \in {COMPLETED, FAILED}

\* a step in which the engine changes its job's status leads to an
\* update, and an update that returns has stored the engine's status
UpdateFollowsTransition ==
    /\ \A c \in Callers :
         /\ (ex[c].pc # "find" /\ ex'[c].job.status # ex[c].job.status)
               => ex'[c].pc \in {"update1", "update2"}
         /\ (ex[c].pc \in {"update1", "update2"}
                /\ ex'[c].pc \in {"scrape", "done"})
               => (ex'[c].updates = ex[c].updates + 1
                     /\ db'.status = ex[c].job.status)
    /\ bulk'.job.status # bulk.job.status
          => bulk'.pc \in {"update1", "update2"}
    /\ (bulk.pc \in {"update1", "update2"} /\ bulk'.pc \in {"call", "done"})
          => db'.status = bulk.job.status

\* C29: update is called after each status transition of the engine and
\* before the next one: once after start(), with status in_progress and
\* before any extraction is dispatched, and once after complete() or
\* fail(), with the terminal status; no transition goes without an update.
C29_UpdateAfterEachTransition ==
    /\ []((\A c \in Callers : ExecUpdateOrder(c)) /\ BulkUpdateOrder)
    /\ [][UpdateFollowsTransition]_vars

\* a call has returned after two updates around its extractions
C29_Witness ==
    \E c \in Callers :
       /\ ex[c].pc = "done"
       /\ ex[c].updates = 2
       /\ ex[c].dispatched
       /\ db.status = COMPLETED

\* every task of the bulk execution has ended
AllJoined == \A u \in Units : units[u].pc = "done"

\* results change in one place per entry point: in execute, by one Result
\* for the target whose _scrape_target call has just returned, one call
\* at a time; in bulk, in the step after scrape_multiple_urls returned
SingleAggregationPoint ==
    /\ \A c \in Callers :
         ex'[c].job.results # ex[c].job.results =>
            /\ ex[c].pc = "scrape"
            /\ ex[c].i \notin ex[c].settled
            /\ ex'[c].settled = ex[c].settled \cup {ex[c].i}
            /\ ex'[c].job.results =
                  Append(ex[c].job.results,
                         ex'[c].job.results[Len(ex'[c].job.results)])
            /\ ex'[c].job.results[Len(ex'[c].job.results)].source_url
                  = ex[c].job.targets[ex[c].i]
            /\ \A o \in Callers \ {c} : ex'[o] = ex[o]
    /\ bulk'.job.results # bulk.job.results =>
            /\ bulk.pc = "aggregate"
            /\ AllJoined
            /\ units' = units
            /\ bulk'.job.results = bulk.job.results \o bulk.scraped_data_list

\* C30: job.results is changed only at one aggregation point and only
\* with the Result of a unit that has settled; appends do not interleave,
\* and in bulk nothing is appended before every task has been joined.
C30_SingleAggregationPoint ==
    /\ [](bulk.job.results # <<>> => AllJoined)
    /\ [][SingleAggregationPoint]_vars

\* the bulk job holds the Results of two tasks, all joined
C30_Witness ==
    /\ bulk.pc = "update2"
    /\ Len(bulk.job.results) >= 2
    /\ AllJoined

\* a completed job keeps its status and completed_at, and a failed or
\* cancelled job never becomes pending, in_progress or completed
TerminalStays ==
    /\ job.status = COMPLETED =>
          (job'.status = COMPLETED /\ job'.completed_at = job.completed_at)
    /\ job.status \in {FAILED, CANCELLED} =>
          job'.status \in {FAILED, CANCELLED}

\* C31: no start, complete, fail, cancel or add_result call moves a job
\* out of completed (status and completed_at stay), and none moves a
\* failed or cancelled job back to pending, in_progress or completed.
C31_TerminalStays ==
    [][TerminalStays]_vars

\* cancel() has just been refused on a completed job
C31_Witness ==
    /\ last.op = "cancel"
    /\ last.raised
    /\ job.status = COMPLETED
    /\ job.completed_at # NoneTime

\* C32: status and timestamps of a job are consistent in every state:
\* pending has neither timestamp, in_progress has started_at only,
\* completed has both and no error_message, failed and cancelled have
\* completed_at.
C32_StatusTimestampsConsistent ==
    /\ job.status = PENDING =>
          (job.started_at = NoneTime /\ job.completed_at = NoneTime)
    /\ job.status = IN_PROGRESS =>
          (job.started_at # NoneTime /\ job.completed_at = NoneTime)
    /\ job.status = COMPLETED =>
          /\ job.started_at # NoneTime
          /\ job.completed_at # NoneTime
          /\ job.error_message = NoneMsg
    /\ job.status \in {FAILED, CANCELLED} => job.completed_at # NoneTime

\* a job failed straight from pending: completed_at set, started_at not
C32_Witness ==
    /\ job.status = FAILED
    /\ job.started_at = NoneTime
    /\ job.completed_at # NoneTime
    /\ job.error_message = "boom"

\* C33: the job execute returns, which is the value of the final
\* job_repository.update, holds the same results that were appended to
\* the in-memory job during the execution.
C33_UpdatePreservesResults ==
    \A c \in Callers :
       ex[c].pc = "done" => ex[c].ret.results = ex[c].job.results

\* the tasks of the bulk execution that have ended
BulkSettled == {u \in Units : units[u].pc = "done"}

\* C34: in one execution at most one Result is appended per target: in
\* every state len(results) <= number of settled targets <= len(targets).
C34_OneResultPerTarget ==
    /\ \A c \in Callers :
          /\ Len(ex[c].job.results) <= Cardinality(ex[c].settled)
          /\ Cardinality(ex[c].settled) <= Len(ex[c].job.targets)
    /\ entry = "bulk" =>
          /\ Len(bulk.job.results) <= Cardinality(BulkSettled)
          /\ Cardinality(BulkSettled) <= Len(bulk.job.targets)

\* the add_result loop has run over fewer items than there are targets,
\* and a sequential execution is between two targets with one result
C34_Witness ==
    \/ /\ entry = "bulk"
       /\ bulk.pc = "update2"
       /\ Len(bulk.job.results) = 2
       /\ Cardinality(BulkSettled) = 3
    \/ \E c \in Callers :
          /\ ex[c].pc = "scrape"
          /\ Len(ex[c].job.results) = 1
          /\ Cardinality(ex[c].settled) = 1
          /\ Len(ex[c].job.targets) = 2

\* this step invokes an extractor for caller c of execute
ExecInvokes(c) ==
    \/ ex'[c].settled # ex[c].settled
    \/ ex'[c].attempt # ex[c].attempt

\* this step invokes the extractor for a task of the bulk execution
BulkInvokes ==
    \E u \in Units : units'[u].invoked > units[u].invoked

\* an invocation is made inside the scraping phase: the engine's job is
\* in_progress, the update that follows start() has been made and
\* complete()/fail() has not been called
InvokedWhileInProgress ==
    /\ \A c \in Callers :
          ExecInvokes(c) =>
             /\ ex[c].job.status = IN_PROGRESS
             /\ ex[c].updates >= 1
             /\ ex[c].pc = "scrape"
    /\ (entry = "bulk" /\ BulkInvokes) =>
          /\ bulk.job.status = IN_PROGRESS
          /\ db.status = IN_PROGRESS
          /\ bulk.pc = "gather"

\* C35: every extractor invocation of an execution happens while the
\* job's in-memory status is in_progress: none before start() succeeded
\* and its update was issued, none after complete() or fail() was called.
C35_InvokedWhileInProgress ==
    [][InvokedWhileInProgress]_vars

\* a second attempt is running for a bulk task, or a sequential
\* execution is between two attempts for a target
C35_Witness ==
    \/ /\ entry = "bulk"
       /\ \E u \in Units : units[u].pc = "attempt" /\ units[u].invoked = 2
       /\ bulk.job.status = IN_PROGRESS
    \/ \E c \in Callers :
          /\ ex[c].dispatched
          /\ ex[c].pc = "scrape"
          /\ ex[c].attempt = 1
          /\ ex[c].job.status = IN_PROGRESS

\* the job object of caller c was cancelled after this execution started it
CancelledInFlight(c) ==
    /\ ex[c].job.status = CANCELLED
    /\ ex[c].found.status = PENDING

\* C36: once cancel() has been applied to the job object of a running
\* execution, finalization never overwrites it: status and completed_at
\* stay as cancel() left them (complete() and the fallback fail() are
\* rejected) and execute reaches neither its final update nor its return.
C36_CancelNotOverwritten ==
    [][\A c \in Callers :
          CancelledInFlight(c) =>
             /\ ex'[c].job.status = CANCELLED
             /\ ex'[c].job.completed_at = ex[c].job.completed_at
             /\ ex'[c].job.error_message = ex[c].job.error_message
             /\ ex'[c].pc \in {"update1", "scrape", "raised"}
             /\ ex'[c].ret = ex[c].ret]_vars

\* finalization ran on a cancelled job that holds a result: complete()
\* and fail() were rejected and execute was left by the exception
C36_Witness ==
    \E c \in Callers :
       /\ CancelledInFlight(c)
       /\ ex[c].pc = "raised"
       /\ Len(ex[c].job.results) >= 1
       /\ ex[c].i > Len(ex[c].job.targets)

\* the tasks asleep between two attempts
InBackoff == {u \in Units : units[u].pc = "backoff"}

\* C37: in the bulk path a task holds its slot from admission to its
\* final outcome, through the rate-limit delay and every backoff sleep:
\* the free slots are max_concurrent minus the admitted tasks, and when
\* max_concurrent tasks are all in backoff no waiting task can be admitted.
C37_SlotHeldThroughBackoff ==
    (entry = "bulk" /\ bulk.pc = "gather") =>
       /\ sem = bulk.max_concurrent - Cardinality(InFlight)
       /\ Cardinality(InBackoff) = bulk.max_concurrent =>
             \A w \in Units : ~ENABLED UnitAcquire(w)

\* every slot is held by a task in backoff while another task waits
C37_Witness ==
    /\ entry = "bulk"
    /\ bulk.pc = "gather"
    /\ Cardinality(InBackoff) = bulk.max_concurrent
    /\ bulk.max_concurrent = 2
    /\ \E w \in Units : units[w].pc = "waiting"

\* the jobs the request has saved: one per execute call that has passed
\* job_repository.save
JobsSaved ==
    IF req.calls = 0 THEN 0
    ELSE (req.calls - 1) + (IF bulk.pc = "save" THEN 0 ELSE 1)

\* the times the request's target list was handed to
\* scrape_multiple_urls: once per earlier call (a call followed by
\* another one returned normally) and once if the current call got there
ListRuns ==
    IF req.calls = 0 THEN 0
    ELSE (req.calls - 1) + (IF GateCreated THEN 1 ELSE 0)

====
